---- MODULE Spec2Model ----
(***************************************************************************)
(* Duocards: the SM-2 spaced-repetition scheduler (src/spaced_rep.py) and  *)
(* the card store operations around it (src/app.py, src/models.py).        *)
(*                                                                         *)
(* ease_factor is a Python float (IEEE-754 binary64).  The model computes  *)
(* every floating-point operation of calculate_sm2 exactly: a float is a   *)
(* sign and a magnitude, the magnitude an exact multiple of 2^-60 held in  *)
(* NLimbs limbs of LimbBits bits (least significant first), and every      *)
(* operation is the exact result rounded to 53 significant bits, ties to   *)
(* even.  Time is a monotonic clock counted in ticks, DayTicks to the day. *)
(***************************************************************************)
EXTENDS Integers, Sequences, FiniteSets, TLC

(***************************************************************************)
(* Bounds of the model.                                                    *)
(***************************************************************************)
MaxCards == 2        \* largest card identifier
MaxReviews == 2      \* rows of the history table
MaxTime == 1         \* last tick of the clock
MaxStreak == 5       \* reviews of the card that is followed from its creation
MaxLimit == 3        \* largest limit of a review batch request
MaxRequests == 2     \* review requests followed step by step through the handler
DayTicks == 1        \* clock ticks per day
MaxInInterval == 7   \* largest interval of a scheduling state given as input
MaxInReps == 3       \* largest repetitions of a scheduling state given as input
MaxCalls == 2        \* calls of calculate_sm2 in a row on one scheduling state

(***************************************************************************)
(* Exact arithmetic on magnitudes: naturals in units of 2^-60.             *)
(***************************************************************************)
LimbBits == 15
NLimbs == 6
FracLimbs == 4
Base == 2^LimbBits
Limbs == 1..NLimbs

BigZero == [i \in Limbs |-> 0]

\* the integer n (0 <= n < Base^2) as a magnitude
BigFromInt(n) ==
    [i \in Limbs |-> IF i = FracLimbs + 1 THEN n % Base
                     ELSE IF i = FracLimbs + 2 THEN n \div Base
                     ELSE 0]

RECURSIVE BigCmpFrom(_, _, _)
BigCmpFrom(a, b, i) ==
    IF i = 0 THEN 0
    ELSE IF a[i] > b[i] THEN 1
    ELSE IF a[i] < b[i] THEN -1
    ELSE BigCmpFrom(a, b, i - 1)

\* -1, 0, 1 as a < b, a = b, a > b
BigCmp(a, b) == BigCmpFrom(a, b, NLimbs)

RECURSIVE AddCarry(_, _, _)
AddCarry(a, b, i) ==
    IF i = 1 THEN 0 ELSE (a[i-1] + b[i-1] + AddCarry(a, b, i - 1)) \div Base

BigAdd(a, b) == [i \in Limbs |-> (a[i] + b[i] + AddCarry(a, b, i)) % Base]

RECURSIVE SubBorrow(_, _, _)
SubBorrow(a, b, i) ==
    IF i = 1 THEN 0
    ELSE IF a[i-1] - b[i-1] - SubBorrow(a, b, i - 1) < 0 THEN 1 ELSE 0

\* a - b for a >= b
BigSub(a, b) ==
    [i \in Limbs |-> (a[i] - b[i] - SubBorrow(a, b, i) + Base) % Base]

RECURSIVE MulCarry(_, _, _)
MulCarry(a, n, i) ==
    IF i = 1 THEN 0 ELSE (a[i-1] * n + MulCarry(a, n, i - 1)) \div Base

\* a * n for 0 <= n < Base
BigMulSmall(a, n) == [i \in Limbs |-> (a[i] * n + MulCarry(a, n, i)) % Base]

RECURSIVE DivRem(_, _, _)
DivRem(a, d, i) ==
    IF i > NLimbs THEN 0 ELSE (DivRem(a, d, i + 1) * Base + a[i]) % d

\* floor(a / d) for 0 < d < Base, and whether the division left a remainder
BigDivSmall(a, d) ==
    [i \in Limbs |-> (DivRem(a, d, i + 1) * Base + a[i]) \div d]
BigDivInexact(a, d) == DivRem(a, d, 1) # 0

BitsOf(x) == CHOOSE k \in 0..LimbBits : x < 2^k /\ (k = 0 \/ x >= 2^(k-1))
TopLimb(a) ==
    IF a = BigZero THEN 0 ELSE CHOOSE i \in Limbs :
        a[i] # 0 /\ \A j \in Limbs : j > i => a[j] = 0
\* number of significant bits of a
BigBitLen(a) ==
    IF a = BigZero THEN 0
    ELSE LimbBits * (TopLimb(a) - 1) + BitsOf(a[TopLimb(a)])

BigPow2(k) ==
    [i \in Limbs |-> IF i = k \div LimbBits + 1 THEN 2^(k % LimbBits) ELSE 0]
BigLowBits(a, k) ==
    [i \in Limbs |-> IF i < k \div LimbBits + 1 THEN a[i]
                     ELSE IF i = k \div LimbBits + 1
                          THEN a[i] % 2^(k % LimbBits)
                     ELSE 0]
BigBit(a, k) == (a[k \div LimbBits + 1] \div 2^(k % LimbBits)) % 2

(***************************************************************************)
(* IEEE-754 binary64, round-to-nearest-even.                               *)
(***************************************************************************)
Precision == 53

\* the exact value a (plus a nonzero amount below its last bit when sticky)
\* rounded to Precision significant bits, ties to even
RoundNearestEven(a, sticky) ==
    LET n == BigBitLen(a) IN
    IF n <= Precision THEN a
    ELSE LET k == n - Precision
             low == BigLowBits(a, k)
             c == BigCmp(low, BigPow2(k - 1))
             up == c > 0 \/ (c = 0 /\ (sticky \/ BigBit(a, k) = 1))
             kept == BigSub(a, low)
         IN  IF up THEN BigAdd(kept, BigPow2(k)) ELSE kept

Float(neg, mag) == [neg |-> neg /\ mag # BigZero, mag |-> mag]

\* the float a decimal literal num/den (num >= 0) denotes
Lit(num, den) ==
    Float(FALSE, RoundNearestEven(BigDivSmall(BigFromInt(num), den),
                                  BigDivInexact(BigFromInt(num), den)))

\* int -> float, exact for |n| < Base^2
FloatOfInt(n) == Float(n < 0, BigFromInt(IF n < 0 THEN -n ELSE n))

FNeg(x) == Float(~x.neg, x.mag)

\* x + y
FAdd(x, y) ==
    IF x.neg = y.neg
    THEN Float(x.neg, RoundNearestEven(BigAdd(x.mag, y.mag), FALSE))
    ELSE IF BigCmp(x.mag, y.mag) >= 0
         THEN Float(x.neg, RoundNearestEven(BigSub(x.mag, y.mag), FALSE))
         ELSE Float(y.neg, RoundNearestEven(BigSub(y.mag, x.mag), FALSE))

\* x - y
FSub(x, y) == FAdd(x, FNeg(y))

\* n * x for an int n with |n| < Base
IntTimesFloat(n, x) ==
    Float((n < 0) # x.neg,
          RoundNearestEven(BigMulSmall(x.mag, IF n < 0 THEN -n ELSE n), FALSE))

\* x < y
FLess(x, y) ==
    IF x.neg # y.neg THEN x.neg
    ELSE IF x.neg THEN BigCmp(x.mag, y.mag) > 0
    ELSE BigCmp(x.mag, y.mag) < 0

\* Python max(x, y): the first argument unless the second is greater
PyMax(x, y) == IF FLess(x, y) THEN y ELSE x

\* Python round(x) of a float: the nearest int, ties to even
PyRound(x) ==
    LET ip == x.mag[FracLimbs + 1] + Base * x.mag[FracLimbs + 2]
        frac == BigLowBits(x.mag, FracLimbs * LimbBits)
        c == BigCmp(frac, BigPow2(FracLimbs * LimbBits - 1))
        r == IF c > 0 \/ (c = 0 /\ ip % 2 = 1) THEN ip + 1 ELSE ip
    IN  IF x.neg THEN -r ELSE r

(***************************************************************************)
(* src/spaced_rep.py: calculate_sm2.                                       *)
(***************************************************************************)
MIN_EF == Lit(13, 10)        \* 1.3
EF_STEP == Lit(1, 10)        \* 0.1
EF_LINEAR == Lit(8, 100)     \* 0.08
EF_QUADRATIC == Lit(2, 100)  \* 0.02
DEFAULT_EF == Lit(25, 10)    \* 2.5

Min(a, b) == IF a < b THEN a ELSE b
Max(a, b) == IF a > b THEN a ELSE b

\* mutant: only the upper end is clamped
ClampQuality_UpperOnly(quality) == Min(5, quality)

\* quality = max(0, min(5, quality))
ClampQuality(quality) == Max(0, Min(5, quality))

\* mutant: the quadratic term is dropped
EaseDelta_NoQuadratic(q) == FSub(EF_STEP, IntTimesFloat(5 - q, EF_LINEAR))

\* 0.1 - (5 - q) * (0.08 + (5 - q) * 0.02), for a clamped q
EaseDelta(q) ==
    FSub(EF_STEP,
         IntTimesFloat(5 - q, FAdd(EF_LINEAR, IntTimesFloat(5 - q, EF_QUADRATIC))))

\* the term for each quality of the range, computed once
EaseDeltaOf == [q \in 0..5 |-> EaseDelta(q)]
EaseDeltaAt(q) == IF q \in DOMAIN EaseDeltaOf THEN EaseDeltaOf[q] ELSE EaseDelta(q)

\* mutant: no floor
NewEaseFactor_NoFloor(ease_factor, q) == FAdd(ease_factor, EaseDeltaAt(q))

\* card.ease_factor = max(1.3, card.ease_factor + (0.1 - ...))
NewEaseFactor(ease_factor, q) == PyMax(MIN_EF, FAdd(ease_factor, EaseDeltaAt(q)))

\* mutant: the first success is not special-cased
NewInterval_NoFirstStep(card, q, ef) ==
    IF q < 3 THEN 1
    ELSE IF card.repetitions = 1 THEN 6
    ELSE PyRound(IntTimesFloat(card.interval, ef))

\* mutant: the interval is scaled by the ease factor before the update
NewInterval_OldEase(card, q, ef) ==
    IF q < 3 THEN 1
    ELSE IF card.repetitions = 0 THEN 1
    ELSE IF card.repetitions = 1 THEN 6
    ELSE PyRound(IntTimesFloat(card.interval, card.ease_factor))

\* mutant: repetitions is incremented before the interval is chosen
NewInterval_PostIncrement(card, q, ef) ==
    IF q < 3 THEN 1
    ELSE IF card.repetitions + 1 = 0 THEN 1
    ELSE IF card.repetitions + 1 = 1 THEN 6
    ELSE PyRound(IntTimesFloat(card.interval, ef))

\* mutant: quality 3 counts as a failure
NewInterval_FailAtThree(card, q, ef) ==
    IF q <= 3 THEN 1
    ELSE IF card.repetitions = 0 THEN 1
    ELSE IF card.repetitions = 1 THEN 6
    ELSE PyRound(IntTimesFloat(card.interval, ef))

\* mutant: the first two steps are exchanged
NewInterval_SwappedSteps(card, q, ef) ==
    IF q < 3 THEN 1
    ELSE IF card.repetitions = 0 THEN 6
    ELSE IF card.repetitions = 1 THEN 1
    ELSE PyRound(IntTimesFloat(card.interval, ef))

\* mutant: a failure leaves the interval as it was
NewInterval_KeepOnFail(card, q, ef) ==
    IF q < 3 THEN card.interval
    ELSE IF card.repetitions = 0 THEN 1
    ELSE IF card.repetitions = 1 THEN 6
    ELSE PyRound(IntTimesFloat(card.interval, ef))

\* mutant: the six-day step is taken once more
NewInterval_SixTwice(card, q, ef) ==
    IF q < 3 THEN 1
    ELSE IF card.repetitions = 0 THEN 1
    ELSE IF card.repetitions <= 2 THEN 6
    ELSE PyRound(IntTimesFloat(card.interval, ef))

\* the interval and repetitions branch, on the updated ease factor
NewInterval(card, q, ef) ==
    IF q < 3 THEN 1
    ELSE IF card.repetitions = 0 THEN 1
    ELSE IF card.repetitions = 1 THEN 6
    ELSE PyRound(IntTimesFloat(card.interval, ef))

\* mutant: a failure keeps the repetitions
NewRepetitions_KeepOnFail(card, q) ==
    IF q < 3 THEN card.repetitions ELSE card.repetitions + 1

NewRepetitions(card, q) == IF q < 3 THEN 0 ELSE card.repetitions + 1

\* mutant: next_review is set from the interval before the update
calculate_sm2_StaleInterval(card, quality, now_) ==
    LET q == ClampQuality(quality)
        ef == NewEaseFactor(card.ease_factor, q)
    IN  [card EXCEPT !.ease_factor = ef,
                     !.interval = NewInterval(card, q, ef),
                     !.repetitions = NewRepetitions(card, q),
                     !.next_review = now_ + card.interval * DayTicks]

\* mutant: the next review is counted from the date the card was due
calculate_sm2_FromDueDate(card, quality, now_) ==
    LET q == ClampQuality(quality)
        ef == NewEaseFactor(card.ease_factor, q)
        iv == NewInterval(card, q, ef)
    IN  [card EXCEPT !.ease_factor = ef, !.interval = iv,
                     !.repetitions = NewRepetitions(card, q),
                     !.next_review = card.next_review + iv * DayTicks]

\* calculate_sm2(card, quality), utcnow() reading now
calculate_sm2(card, quality, now_) ==
    LET q == ClampQuality(quality)
        ef == NewEaseFactor(card.ease_factor, q)
        iv == NewInterval(card, q, ef)
    IN  [card EXCEPT !.ease_factor = ef,
                     !.interval = iv,
                     !.repetitions = NewRepetitions(card, q),
                     !.next_review = now_ + iv * DayTicks]

(***************************************************************************)
(* The store (src/models.py) and the clock.                                *)
(***************************************************************************)
VARIABLES
    cards,      \* table cards: id -> scheduling fields of the row
    history,    \* table review_history: a set of rows
    now,        \* datetime.utcnow(), in ticks
    last,       \* the last call and its response
    inflight    \* the review requests followed step by step: request ->
                \* position in the handler and the card held by its session
vars == <<cards, history, now, last, inflight>>

\* mutant: a new card is scheduled for the day after its creation
NewCard_DueTomorrow(first, second) ==
    [ease_factor |-> DEFAULT_EF, interval |-> 0, repetitions |-> 0,
     next_review |-> first + DayTicks, created_at |-> second]

\* CardDB(...) with the column defaults.  Each default=datetime.utcnow is a
\* call of its own when the row is inserted: first is the reading for
\* next_review, second the later reading for created_at.
NewCard(first, second) ==
    [ease_factor |-> DEFAULT_EF, interval |-> 0, repetitions |-> 0,
     next_review |-> first, created_at |-> second]

\* the body of a response that carries no card
NoCard ==
    [ease_factor |-> Float(FALSE, BigZero), interval |-> 0, repetitions |-> 0,
     next_review |-> 0, created_at |-> 0]

SetMax(S) == IF S = {} THEN 0 ELSE CHOOSE m \in S : \A x \in S : x <= m

\* INTEGER PRIMARY KEY of SQLite: one more than the largest id in the table
NextCardId == SetMax(DOMAIN cards) + 1

\* card.history
HistoryOf(card_id) == {h \in history : h.card_id = card_id}

\* ReviewHistory(card_id=..., quality=...), reviewed_at by its default.  The
\* autoincrement key of the row, which nothing reads, is kept as the rank of
\* the row among the rows of its card, in the order of insertion.
NewHistory(card_id, quality, t) ==
    [rank |-> Cardinality(HistoryOf(card_id)) + 1, card_id |-> card_id,
     quality |-> quality, reviewed_at |-> t]

\* mutant: the field carries no range
ReviewRequestValid_Unbounded(quality) == TRUE

\* ReviewRequest: quality: int = Field(..., ge=0, le=5)
ReviewRequestValid(quality) == quality >= 0 /\ quality <= 5

\* the response to a call: the status and, when the body is a card, the card
Response(op, status, card_id, card) ==
    [op |-> op, status |-> status, card_id |-> card_id, card |-> card]
\* HTTPException(status_code=404), the validation error 422, {"message": ...}
Failure(op, status) == Response(op, status, 0, NoCard)

\* a request that has not arrived
NoRequest == [pc |-> "none", card_id |-> 0, quality |-> 0, card |-> NoCard]
Requests == 1..MaxRequests
\* the create_card request that is followed step by step
CreateRequest == 0
Handlers == {CreateRequest} \cup Requests
NoRequests == [r \in Handlers |-> NoRequest]

CardIds == 1..MaxCards              \* identifiers a request may name
Qualities == {-1, 2, 5, 6}          \* qualities a request may carry

Init ==
    /\ cards = <<>>
    /\ history = {}
    /\ now = 0
    /\ last = Response("start", 0, 0, NoCard)
    /\ inflight = NoRequests

\* the readings utcnow() may give after a reading t, as far as the clock
\* is followed
LaterReadings(t) == {t} \cup (t..MaxTime)

\* POST /api/cards; created is the reading of the clock for created_at,
\* after the reading now for next_review
create_card(created) ==
    /\ cards' = [id \in DOMAIN cards \cup {NextCardId} |->
                    IF id = NextCardId THEN NewCard(now, created) ELSE cards[id]]
    /\ last' = Response("create_card", 200, NextCardId, NewCard(now, created))
    /\ now' = created
    /\ UNCHANGED history
    /\ UNCHANGED inflight

\* mutant: the history rows of the card are left in the table
delete_card_NoCascade(card_id) ==
    /\ IF card_id \notin DOMAIN cards
       THEN /\ last' = Failure("delete_card", 404)
            /\ UNCHANGED <<cards, history>>
       ELSE /\ cards' = [id \in DOMAIN cards \ {card_id} |-> cards[id]]
            /\ history' = history
            /\ last' = Failure("delete_card", 200)
    /\ UNCHANGED now
    /\ UNCHANGED inflight

\* DELETE /api/cards/{card_id}
delete_card(card_id) ==
    /\ IF card_id \notin DOMAIN cards
       THEN /\ last' = Failure("delete_card", 404)
            /\ UNCHANGED <<cards, history>>
       ELSE /\ cards' = [id \in DOMAIN cards \ {card_id} |-> cards[id]]
            /\ history' = history \ HistoryOf(card_id)
            /\ last' = Failure("delete_card", 200)
    /\ UNCHANGED now
    /\ UNCHANGED inflight

\* mutant: the history record is added before the card is looked up
review_card_HistoryFirst(card_id, quality, flushed) ==
    /\ IF ~ReviewRequestValid(quality)
       THEN /\ last' = Failure("review_card", 422)
            /\ UNCHANGED <<cards, history>>
       ELSE /\ history' = history \cup {NewHistory(card_id, quality, flushed)}
            /\ IF card_id \notin DOMAIN cards
               THEN /\ last' = Failure("review_card", 404)
                    /\ UNCHANGED cards
               ELSE /\ cards' = [cards EXCEPT ![card_id] =
                                    calculate_sm2(cards[card_id], quality, now)]
                    /\ last' = Response("review_card", 200, card_id,
                                        cards'[card_id])
    /\ now' = IF last'.status = 200 THEN flushed ELSE now
    /\ UNCHANGED inflight

\* mutant: a failed review leaves no history record
review_card_SuccessOnly(card_id, quality, flushed) ==
    /\ IF ~ReviewRequestValid(quality)
       THEN /\ last' = Failure("review_card", 422)
            /\ UNCHANGED <<cards, history>>
       ELSE IF card_id \notin DOMAIN cards
       THEN /\ last' = Failure("review_card", 404)
            /\ UNCHANGED <<cards, history>>
       ELSE /\ history' = IF quality < 3 THEN history
                          ELSE history \cup {NewHistory(card_id, quality, flushed)}
            /\ cards' = [cards EXCEPT
                            ![card_id] = calculate_sm2(cards[card_id], quality, now)]
            /\ last' = Response("review_card", 200, card_id, cards'[card_id])
    /\ now' = IF last'.status = 200 THEN flushed ELSE now
    /\ UNCHANGED inflight

\* mutant: the card keeps only the record of its latest review
review_card_LatestOnly(card_id, quality, flushed) ==
    /\ IF ~ReviewRequestValid(quality)
       THEN /\ last' = Failure("review_card", 422)
            /\ UNCHANGED <<cards, history>>
       ELSE IF card_id \notin DOMAIN cards
       THEN /\ last' = Failure("review_card", 404)
            /\ UNCHANGED <<cards, history>>
       ELSE /\ history' = (history \ HistoryOf(card_id))
                              \cup {NewHistory(card_id, quality, flushed)}
            /\ cards' = [cards EXCEPT
                            ![card_id] = calculate_sm2(cards[card_id], quality, now)]
            /\ last' = Response("review_card", 200, card_id, cards'[card_id])
    /\ now' = IF last'.status = 200 THEN flushed ELSE now
    /\ UNCHANGED inflight

\* POST /api/review/{card_id}; calculate_sm2 reads the clock at now, and
\* flushed is the later reading, taken when db.commit() writes the record,
\* for reviewed_at
review_card(card_id, quality, flushed) ==
    /\ IF ~ReviewRequestValid(quality)
       THEN /\ last' = Failure("review_card", 422)
            /\ UNCHANGED <<cards, history>>
       ELSE IF card_id \notin DOMAIN cards
       THEN /\ last' = Failure("review_card", 404)
            /\ UNCHANGED <<cards, history>>
       ELSE /\ history' = history \cup {NewHistory(card_id, quality, flushed)}
            /\ cards' = [cards EXCEPT
                            ![card_id] = calculate_sm2(cards[card_id], quality, now)]
            /\ last' = Response("review_card", 200, card_id, cards'[card_id])
    /\ now' = IF last'.status = 200 THEN flushed ELSE now
    /\ UNCHANGED inflight

\* the rows of a query over the cards S with ORDER BY key: every order of
\* the rows that is ascending in the key (rows with equal keys come in any
\* order, which SQL leaves open)
OrderBy(S, key) ==
    {rows \in [1..Cardinality(S) -> S] :
        /\ \A i, j \in 1..Cardinality(S) : i # j => rows[i] # rows[j]
        /\ \A i, j \in 1..Cardinality(S) : i < j => key[rows[i]] <= key[rows[j]]}

\* .limit(n).all() for n >= 0
LimitAll(rows, n) == SubSeq(rows, 1, Min(n, Len(rows)))

\* the columns the queries order by
next_review_of(id) == cards[id].next_review
created_at_of(id) == cards[id].created_at
by_next_review == [id \in DOMAIN cards |-> next_review_of(id)]
by_created_at == [id \in DOMAIN cards |-> created_at_of(id)]

\* mutant: cards are due strictly after next_review
get_due_cards_StrictlyPast(limit) ==
    {LimitAll(rows, limit) :
        rows \in OrderBy({id \in DOMAIN cards : cards[id].next_review < now},
                         by_next_review)}

\* get_due_cards(session, limit): the identifiers of the rows, in every
\* order the query may return them
get_due_cards(limit) ==
    {LimitAll(rows, limit) :
        rows \in OrderBy({id \in DOMAIN cards : cards[id].next_review <= now},
                         by_next_review)}

\* get_new_cards(session, limit)
get_new_cards(limit) ==
    {LimitAll(rows, limit) :
        rows \in OrderBy({id \in DOMAIN cards : cards[id].repetitions = 0},
                         by_created_at)}

Limits == 1..MaxLimit               \* limits a batch request may carry

\* the response to GET /api/review: the identifiers of the cards of the
\* list, in order, and whether get_new_cards was called
BatchResponse(limit, batch, new_query) ==
    [op |-> "get_review_cards", status |-> 200, card_id |-> 0, card |-> NoCard,
     limit |-> limit, batch |-> batch, new_query |-> new_query]

\* mutant: the new cards are fetched with the whole limit
get_review_cards_NewFullLimit(limit) ==
    /\ \E due \in get_due_cards(limit) :
          IF Len(due) < limit
          THEN \E new \in get_new_cards(limit) :
                  last' = BatchResponse(limit, due \o new, TRUE)
          ELSE last' = BatchResponse(limit, due, FALSE)
    /\ UNCHANGED <<cards, history, now>>
    /\ UNCHANGED inflight

\* mutant: the new cards come before the due cards
get_review_cards_NewFirst(limit) ==
    /\ \E due \in get_due_cards(limit) :
          IF Len(due) < limit
          THEN \E new \in get_new_cards(limit - Len(due)) :
                  last' = BatchResponse(limit, new \o due, TRUE)
          ELSE last' = BatchResponse(limit, due, FALSE)
    /\ UNCHANGED <<cards, history, now>>
    /\ UNCHANGED inflight

\* mutant: the cards of the batch are marked as served for this day
get_review_cards_Reschedule(limit) ==
    /\ \E due \in get_due_cards(limit) :
          /\ IF Len(due) < limit
             THEN \E new \in get_new_cards(limit - Len(due)) :
                     last' = BatchResponse(limit, due \o new, TRUE)
             ELSE last' = BatchResponse(limit, due, FALSE)
          /\ cards' = [id \in DOMAIN cards |->
                          IF \E i \in DOMAIN due : due[i] = id
                          THEN [cards[id] EXCEPT !.next_review = now + DayTicks]
                          ELSE cards[id]]
    /\ UNCHANGED <<history, now>>
    /\ UNCHANGED inflight

\* GET /api/review?limit=...
get_review_cards(limit) ==
    /\ \E due \in get_due_cards(limit) :
          IF Len(due) < limit
          THEN \E new \in get_new_cards(limit - Len(due)) :
                  last' = BatchResponse(limit, due \o new, TRUE)
          ELSE last' = BatchResponse(limit, due, FALSE)
    /\ UNCHANGED <<cards, history, now>>
    /\ UNCHANGED inflight

MATURE_INTERVAL == 21

\* GET /api/stats: the counts of the response
get_stats ==
    [total |-> Cardinality(DOMAIN cards),
     due |-> Cardinality({id \in DOMAIN cards : cards[id].next_review <= now}),
     new |-> Cardinality({id \in DOMAIN cards : cards[id].repetitions = 0}),
     learning |-> Cardinality({id \in DOMAIN cards :
                     cards[id].repetitions > 0
                         /\ cards[id].interval < MATURE_INTERVAL}),
     mature |-> Cardinality({id \in DOMAIN cards :
                     cards[id].interval >= MATURE_INTERVAL})]

\* the clock advances
Tick ==
    /\ now' = now + 1
    /\ UNCHANGED <<cards, history, last>>
    /\ UNCHANGED inflight

\* the requests that write to the tables and the ticks of a behaviour,
\* within the bounds; the clock may advance between the two readings of a
\* request
Next ==
    \/ NextCardId <= MaxCards /\ \E created \in LaterReadings(now) : create_card(created)
    \/ \E card_id \in CardIds : delete_card(card_id)
    \/ \E card_id \in CardIds, quality \in Qualities, flushed \in LaterReadings(now) :
           Cardinality(history) < MaxReviews /\ review_card(card_id, quality, flushed)
    \/ now < MaxTime /\ Tick

Spec == Init /\ [][Next]_vars

(***************************************************************************)
(* The store with the review batch requests.  A batch is selected on the   *)
(* columns of the cards table alone, so the history record of a review is  *)
(* written here at the reading of the clock calculate_sm2 took; a card is  *)
(* still created with its two readings.                                    *)
(***************************************************************************)
NextBatch ==
    \/ NextCardId <= MaxCards /\ \E created \in LaterReadings(now) : create_card(created)
    \/ \E card_id \in CardIds : delete_card(card_id)
    \/ \E card_id \in CardIds, quality \in Qualities :
           Cardinality(history) < MaxReviews /\ review_card(card_id, quality, now)
    \/ \E limit \in Limits : get_review_cards(limit)
    \/ now < MaxTime /\ Tick

SpecBatch == Init /\ [][NextBatch]_vars

(***************************************************************************)
(* One card followed from its creation through its reviews, with every     *)
(* quality the request model accepts; the clock stands still, so that the  *)
(* two readings of a request are equal.                                    *)
(***************************************************************************)
ValidQualities == 0..5

NextCard ==
    \/ cards = <<>> /\ create_card(now)
    \/ \E quality \in ValidQualities :
           Cardinality(history) < MaxStreak /\ review_card(1, quality, now)

SpecCard == Init /\ [][NextCard]_vars

(***************************************************************************)
(* One card and the clock: time passes between two review requests of the  *)
(* card, so that utcnow() differs from one review to the next, and the     *)
(* record of a review is written at the reading of calculate_sm2 or one    *)
(* tick later.                                                             *)
(***************************************************************************)
NextTimed ==
    \/ cards = <<>> /\ create_card(now)
    \/ \E quality \in Qualities, flushed \in {now, now + 1} :
           /\ Cardinality(history) < MaxStreak
           /\ flushed <= MaxStreak
           /\ \A h \in history : h.reviewed_at < now
           /\ review_card(1, quality, flushed)
    \/ now < MaxStreak /\ Tick

SpecTimed == Init /\ [][NextTimed]_vars

(***************************************************************************)
(* review_card step by step.  Each request has a session of its own        *)
(* (get_db); the card the handler loads, updates and commits is an object  *)
(* of that session, and the tables change at db.commit() only.  The        *)
(* handlers are coroutines without an await, so the event loop runs one    *)
(* handler from its first statement to its last before it starts another.  *)
(* The process may stop at any statement, also between db.commit() and the *)
(* response; what a session has not committed is then lost, and what it    *)
(* has committed stays.                                                    *)
(***************************************************************************)
Running(r) == inflight[r].pc \in {"loaded", "updated", "pending", "committed"}

\* mutant: the handlers run in threads, and a request starts at any time
EventLoopFree_Threaded(r) == TRUE

\* no handler of another request is between its first and last statement
EventLoopFree(r) == \A other \in Handlers \ {r} : ~Running(other)

\* create_card up to db.commit(): the INSERT of the card with its column
\* defaults (src/app.py:89-100); created is the reading of the clock for
\* created_at, after the reading now for next_review
create_card_commit(created) ==
    /\ inflight[CreateRequest].pc = "none"
    /\ EventLoopFree(CreateRequest)
    /\ cards' = [id \in DOMAIN cards \cup {NextCardId} |->
                    IF id = NextCardId THEN NewCard(now, created) ELSE cards[id]]
    /\ inflight' = [inflight EXCEPT ![CreateRequest] =
           [pc |-> "committed", card_id |-> NextCardId, quality |-> 0,
            card |-> NewCard(now, created)]]
    /\ now' = created
    /\ UNCHANGED <<history, last>>

\* db.refresh(db_card) and the response of create_card (src/app.py:101-102)
create_card_return ==
    /\ inflight[CreateRequest].pc = "committed"
    /\ inflight[CreateRequest].card_id \in DOMAIN cards
    /\ last' = Response("create_card", 200, inflight[CreateRequest].card_id,
                        cards[inflight[CreateRequest].card_id])
    /\ inflight' = [inflight EXCEPT
           ![CreateRequest].card = cards[inflight[CreateRequest].card_id],
           ![CreateRequest].pc = "done"]
    /\ UNCHANGED <<cards, history, now>>

\* the request is validated and the card queried (src/app.py:149-153); a
\* rejected request ends here and leaves nothing behind
review_card_query(r, card_id, quality) ==
    /\ inflight[r].pc = "none"
    /\ EventLoopFree(r)
    /\ IF ~ReviewRequestValid(quality)
       THEN /\ last' = Failure("review_card", 422)
            /\ inflight' = [inflight EXCEPT ![r] = [NoRequest EXCEPT !.pc = "rejected"]]
       ELSE IF card_id \notin DOMAIN cards
       THEN /\ last' = Failure("review_card", 404)
            /\ inflight' = [inflight EXCEPT ![r] = [NoRequest EXCEPT !.pc = "rejected"]]
       ELSE /\ inflight' = [inflight EXCEPT ![r] =
                   [pc |-> "loaded", card_id |-> card_id, quality |-> quality,
                    card |-> cards[card_id]]]
            /\ UNCHANGED last
    /\ UNCHANGED <<cards, history, now>>

\* mutant: the scheduling update is committed on its own
review_card_sm2_CommitFirst(r) ==
    /\ inflight[r].pc = "loaded"
    /\ inflight' = [inflight EXCEPT
           ![r].card = calculate_sm2(inflight[r].card, inflight[r].quality, now),
           ![r].pc = "updated"]
    /\ cards' = [cards EXCEPT ![inflight[r].card_id] = inflight'[r].card]
    /\ UNCHANGED <<history, now, last>>

\* card = calculate_sm2(card, review.quality) on the object of the session
\* (src/app.py:156)
review_card_sm2(r) ==
    /\ inflight[r].pc = "loaded"
    /\ inflight' = [inflight EXCEPT
           ![r].card = calculate_sm2(inflight[r].card, inflight[r].quality, now),
           ![r].pc = "updated"]
    /\ UNCHANGED <<cards, history, now, last>>

\* db.add(ReviewHistory(...)): the record is pending in the session
\* (src/app.py:159-163)
review_card_add(r) ==
    /\ inflight[r].pc = "updated"
    /\ inflight' = [inflight EXCEPT ![r].pc = "pending"]
    /\ UNCHANGED <<cards, history, now, last>>

\* db.commit(): the UPDATE of the card and the INSERT of the record in one
\* transaction (src/app.py:165)
review_card_commit(r) ==
    /\ inflight[r].pc = "pending"
    /\ inflight[r].card_id \in DOMAIN cards
    /\ cards' = [cards EXCEPT ![inflight[r].card_id] = inflight[r].card]
    /\ history' = history \cup
           {NewHistory(inflight[r].card_id, inflight[r].quality, now)}
    /\ inflight' = [inflight EXCEPT ![r].pc = "committed"]
    /\ UNCHANGED <<now, last>>

\* db.refresh(card) reads the row of the card again, and the handler
\* returns it (src/app.py:166-168)
review_card_return(r) ==
    /\ inflight[r].pc = "committed"
    /\ inflight[r].card_id \in DOMAIN cards
    /\ last' = Response("review_card", 200, inflight[r].card_id,
                        cards[inflight[r].card_id])
    /\ inflight' = [inflight EXCEPT
           ![r].card = cards[inflight[r].card_id],
           ![r].pc = "done"]
    /\ UNCHANGED <<cards, history, now>>

\* the process stops: the sessions of the running handlers are gone with
\* what they had not committed, and no response is given
Crash ==
    /\ \E r \in Handlers : Running(r)
    /\ inflight' = [r \in Handlers |->
                       IF Running(r) THEN [inflight[r] EXCEPT !.pc = "crashed"]
                       ELSE inflight[r]]
    /\ last' = Failure("crash", 0)
    /\ UNCHANGED <<cards, history, now>>

\* the steps of the handlers, the stop of the process and the ticks; the
\* review requests are numbered in the order in which they arrive
NextHandler ==
    \/ cards = <<>> /\ \E created \in LaterReadings(now) : create_card_commit(created)
    \/ create_card_return
    \/ \E r \in Requests, card_id \in CardIds, quality \in Qualities :
           /\ \A earlier \in 1..(r - 1) : inflight[earlier].pc # "none"
           /\ review_card_query(r, card_id, quality)
    \/ \E r \in Requests : review_card_sm2(r)
    \/ \E r \in Requests : review_card_add(r)
    \/ \E r \in Requests : review_card_commit(r)
    \/ \E r \in Requests : review_card_return(r)
    \/ Crash
    \/ now < MaxTime /\ Tick

SpecHandler == Init /\ [][NextHandler]_vars

(***************************************************************************)
(* calculate_sm2 called directly, on any scheduling state and any quality. *)
(***************************************************************************)
\* ease factors of the scheduling states given as input, all >= 1.3
EaseInputs == {MIN_EF, Lit(136, 100), Lit(17, 10), Lit(21, 10), DEFAULT_EF, Lit(3, 1)}

InitSm2 ==
    /\ \E ef \in EaseInputs, iv \in 0..MaxInInterval, rp \in 0..MaxInReps :
           cards = [id \in {1} |->
                       [ease_factor |-> ef, interval |-> iv, repetitions |-> rp,
                        next_review |-> 0, created_at |-> 0]]
    /\ history = {}
    /\ now = 0
    /\ last = [op |-> "start", card_id |-> 1, quality |-> 0, status |-> 0,
               card |-> cards[1], before |-> cards[1], at |-> 0, calls |-> 0]
    /\ inflight = NoRequests

\* calculate_sm2(card, quality) on the card, outside any request
CallSm2(quality) ==
    /\ last.calls < MaxCalls
    /\ cards' = [cards EXCEPT ![1] = calculate_sm2(cards[1], quality, now)]
    /\ last' = [op |-> "calculate_sm2", card_id |-> 1, quality |-> quality,
                status |-> 200, card |-> cards'[1], before |-> cards[1],
                at |-> now, calls |-> last.calls + 1]
    /\ UNCHANGED <<history, now>>
    /\ UNCHANGED inflight

\* qualities given to calculate_sm2, two below and two above its range
Sm2Qualities == -2..7

NextSm2 == \E quality \in Sm2Qualities : CallSm2(quality)

SpecSm2 == InitSm2 /\ [][NextSm2]_vars

(***************************************************************************)
(* Helpers of the properties.                                              *)
(***************************************************************************)
Sm2Called == last.op = "calculate_sm2"
Reviewed == last.op = "review_card" /\ last.status = 200

\* x >= y on floats
FGeq(x, y) == ~FLess(x, y)

\* the qualities of a card's reviews, oldest first
RECURSIVE QualitiesInOrder(_)
QualitiesInOrder(H) ==
    IF H = {} THEN <<>>
    ELSE LET h == CHOOSE h \in H : \A g \in H : h.rank <= g.rank
         IN  <<h.quality>> \o QualitiesInOrder(H \ {h})
ReviewsOf(card_id) == QualitiesInOrder(HistoryOf(card_id))

\* C1: the ease factor of a card is never below the floor 1.3, after any
\* sequence of calculate_sm2 calls with any integer qualities from a state
\* whose ease factor is at least 1.3.
EaseFactorFloor == \A id \in DOMAIN cards : FGeq(cards[id].ease_factor, MIN_EF)

\* a call whose unclamped sum fell below 1.3 and was raised to the floor
EaseFactorFloorWitness ==
    /\ Sm2Called
    /\ FLess(FAdd(last.before.ease_factor, EaseDelta(ClampQuality(last.quality))),
             MIN_EF)
    /\ last.card.ease_factor = MIN_EF
    /\ last.calls = MaxCalls

\* C2 as stated: whatever the scheduling state given to calculate_sm2
\* (ease_factor >= 1.3, interval >= 0, repetitions >= 0) and the quality,
\* the resulting interval is at least 1.
IntervalPositiveAllInputs == Sm2Called => last.card.interval >= 1

\* C2, amended: the resulting interval is at least 1 for every quality and
\* every scheduling state with ease_factor >= 1.3 whose interval is at least
\* 1 whenever its repetitions are at least 2.
IntervalPositive ==
    (Sm2Called /\ (last.before.repetitions < 2 \/ last.before.interval >= 1))
        => last.card.interval >= 1

\* a third-or-later success whose product interval * ease_factor rounds to 1
IntervalPositiveWitness ==
    /\ Sm2Called
    /\ last.before.repetitions >= 2
    /\ last.before.interval = 1
    /\ ClampQuality(last.quality) >= 3
    /\ last.card.interval = 1

\* C3: a quality below 0 gives the ease_factor, interval and repetitions
\* that quality 0 gives, and a quality above 5 those that quality 5 gives.
SameSchedule(c, d) ==
    /\ c.ease_factor = d.ease_factor
    /\ c.interval = d.interval
    /\ c.repetitions = d.repetitions
QualityClamped ==
    Sm2Called =>
        /\ last.quality < 0 =>
               SameSchedule(last.card, calculate_sm2(last.before, 0, last.at))
        /\ last.quality > 5 =>
               SameSchedule(last.card, calculate_sm2(last.before, 5, last.at))

\* a call with a quality above 5 that raised the ease factor as quality 5 does
QualityClampedWitness ==
    /\ Sm2Called
    /\ last.quality > 5
    /\ last.card.ease_factor = FAdd(last.before.ease_factor, EF_STEP)
    /\ last.card.repetitions = last.before.repetitions + 1

\* C4 as stated: a review submission for an existing card with a quality
\* outside 0..5 is processed, never rejected.
OutOfRangeQualityProcessed ==
    [][\A id \in CardIds, q \in Qualities :
        (id \in DOMAIN cards /\ (q < 0 \/ q > 5) /\ review_card(id, q, now'))
            => last'.status = 200]_vars

\* C4, amended: a review submission with a quality outside 0..5 is rejected
\* by the validation of ReviewRequest (HTTP 422), whether or not the card
\* exists, and changes neither a card nor the history.
OutOfRangeQualityRejected ==
    [][\A id \in CardIds, q \in Qualities :
        ((q < 0 \/ q > 5) /\ review_card(id, q, now')) =>
            /\ last'.status = 422
            /\ cards' = cards
            /\ history' = history]_vars

\* a rejected submission while the store holds a reviewed card
OutOfRangeQualityWitness ==
    /\ last.op = "review_card"
    /\ last.status = 422
    /\ \E id \in DOMAIN cards : HistoryOf(id) # {}

\* C5 as claimed: every review submission for a card identifier that is not
\* in the store is answered with 404 and changes no card and no history
\* record.
UnknownCardAlwaysNotFound ==
    [][\A id \in CardIds, q \in Qualities :
        (id \notin DOMAIN cards /\ review_card(id, q, now')) =>
            /\ last'.status = 404
            /\ cards' = cards
            /\ history' = history]_vars

\* C5: a review submission for a card identifier that is not in the store
\* is answered with 404 when its quality is in 0..5 and with 422, before the
\* card is looked up, when it is not; in both cases no card and no history
\* record changes.
UnknownCardNotFound ==
    [][\A id \in CardIds, q \in Qualities :
        (id \notin DOMAIN cards /\ review_card(id, q, now')) =>
            /\ (q >= 0 /\ q <= 5) => last'.status = 404
            /\ (q < 0 \/ q > 5) => last'.status = 422
            /\ cards' = cards
            /\ history' = history]_vars

\* a 404 while the store holds a reviewed card
UnknownCardWitness ==
    /\ last.op = "review_card"
    /\ last.status = 404
    /\ \E id \in DOMAIN cards : HistoryOf(id) # {}

\* C6: a failing review (clamped quality below 3) sets repetitions to 0 and
\* interval to 1, whatever the scheduling state before it.
FailureResets ==
    (Sm2Called /\ ClampQuality(last.quality) < 3)
        => last.card.repetitions = 0 /\ last.card.interval = 1

\* the second of two consecutive failing reviews: the state before it has
\* repetitions 0 after one call, which only a failing review leaves
FailureResetsWitness ==
    /\ Sm2Called
    /\ last.calls = 2
    /\ ClampQuality(last.quality) < 3
    /\ last.before.repetitions = 0
    /\ last.before.interval = 1
    /\ last.card.repetitions = 0
    /\ last.card.interval = 1

\* C7: a card created and then reviewed with quality 5 only has interval 1
\* and repetitions 1 after the first review, interval 6 and repetitions 2
\* after the second, and after the third repetitions 3 and the interval
\* round(6 * ease_factor) on the ease factor of the third update, which is 17.
FirstSuccessSequencing ==
    \A id \in DOMAIN cards :
        LET c == cards[id]
            qs == ReviewsOf(id)
        IN  /\ qs = <<5>> => c.interval = 1 /\ c.repetitions = 1
            /\ qs = <<5, 5>> => c.interval = 6 /\ c.repetitions = 2
            /\ qs = <<5, 5, 5>> =>
                   /\ c.interval = PyRound(IntTimesFloat(6, c.ease_factor))
                   /\ c.interval = 17
                   /\ c.repetitions = 3

\* a card after three quality-5 reviews
FirstSuccessWitness ==
    \E id \in DOMAIN cards :
        ReviewsOf(id) = <<5, 5, 5>> /\ cards[id].interval = 17

(***************************************************************************)
(* The ease-factor recurrence in decimal arithmetic, in hundredths.        *)
(***************************************************************************)
\* d(q) of the recurrence, in hundredths
DeltaHundredths(q) ==
    CASE q = 5 -> 10 [] q = 4 -> 0 [] q = 3 -> -14
      [] q = 2 -> -32 [] q = 1 -> -54 [] q = 0 -> -80

\* ease factors given as input, as the hundredths their literals denote
EaseHundredths == {130, 136, 170, 210, 250, 300}

\* 100 * max(1.3, x + d(q)) for the exact value x of a float, as a magnitude
DecimalTarget(x, q) ==
    LET scaled == BigMulSmall(x.mag, 100)
        d == DeltaHundredths(q)
        sum == IF d >= 0 THEN BigAdd(scaled, BigFromInt(d))
               ELSE BigSub(scaled, BigFromInt(-d))
    IN  IF BigCmp(sum, BigFromInt(130)) < 0 THEN BigFromInt(130) ELSE sum

BigDist(a, b) == IF BigCmp(a, b) >= 0 THEN BigSub(a, b) ELSE BigSub(b, a)

\* the unit in the last place of a float x >= 2^-7
Ulp(x) == BigPow2(BigBitLen(x.mag) - Precision)

\* the float next above a positive float x that is not a power of two
NextUp(x) == Float(FALSE, BigAdd(x.mag, Ulp(x)))

\* C8 as stated: the new ease factor equals max(1.3, old + d(q)); for an
\* old ease factor h/100 it is the float (h + 100 d(q))/100, so that 2.5
\* with q=5 gives 2.6 and 2.5 with q=0 gives 1.7.
EaseRecurrenceExact ==
    Sm2Called =>
        \A h \in EaseHundredths :
            last.before.ease_factor = Lit(h, 100) =>
                last.card.ease_factor =
                    Lit(Max(130, h + DeltaHundredths(ClampQuality(last.quality))),
                        100)

\* C8, amended: the new ease factor is max(1.3, old + d(q)) on the old ease
\* factor up to the rounding of binary floating point: it differs from the
\* decimal value by at most 2 units in the last place of the result.  2.5
\* with q=5 gives 2.6; 2.5 with q=0 gives 1.7000000000000002, the float
\* next above 1.7.
EaseRecurrence ==
    Sm2Called =>
        LET q == ClampQuality(last.quality)
            old == last.before.ease_factor
            new == last.card.ease_factor
        IN  /\ BigCmp(BigDist(BigMulSmall(new.mag, 100), DecimalTarget(old, q)),
                      BigMulSmall(Ulp(new), 200)) <= 0
            /\ (old = DEFAULT_EF /\ q = 5) => new = Lit(26, 10)
            /\ (old = DEFAULT_EF /\ q = 0) => new = NextUp(Lit(17, 10))

\* 2.5 reviewed with quality 0
EaseRecurrenceWitness ==
    /\ Sm2Called
    /\ last.before.ease_factor = DEFAULT_EF
    /\ ClampQuality(last.quality) = 0
    /\ last.card.ease_factor # Lit(17, 10)

\* C9: on a success (clamped quality >= 3) the interval is 1 for 0 earlier
\* repetitions, 6 for 1, and otherwise round(previous interval * updated
\* ease factor), and repetitions grows by exactly 1; on a failure it does
\* not grow.
SuccessBranch ==
    Sm2Called =>
        LET q == ClampQuality(last.quality)
            b == last.before
            c == last.card
        IN  /\ q >= 3 =>
                /\ c.interval =
                       IF b.repetitions = 0 THEN 1
                       ELSE IF b.repetitions = 1 THEN 6
                       ELSE PyRound(IntTimesFloat(b.interval, c.ease_factor))
                /\ c.repetitions = b.repetitions + 1
            /\ q < 3 => c.repetitions # b.repetitions + 1

\* a third-or-later success where the old and the updated ease factor give
\* different intervals
SuccessBranchWitness ==
    /\ Sm2Called
    /\ ClampQuality(last.quality) >= 3
    /\ last.before.repetitions >= 2
    /\ last.card.repetitions = last.before.repetitions + 1
    /\ last.card.interval #
           PyRound(IntTimesFloat(last.before.interval, last.before.ease_factor))

\* the time of the latest review of a card
LastReviewedAt(card_id) == SetMax({h.reviewed_at : h \in HistoryOf(card_id)})

\* a review request for the card that was answered with the updated card
ReviewDone(card_id, quality) ==
    /\ last'.op = "review_card" /\ last'.status = 200
    /\ review_card(card_id, quality, now')

\* C10: every review of a card sets its next_review to the time of the
\* update, the reading of the clock calculate_sm2 takes, plus the card's new
\* interval in days, which is later than the time of the update.
NextReviewAfterUpdate ==
    [][\A id \in DOMAIN cards, q \in Qualities :
          ReviewDone(id, q) =>
              /\ cards'[id].next_review = now + cards'[id].interval * DayTicks
              /\ cards'[id].next_review > now]_vars

\* the first review of a new card, made after the clock has advanced, whose
\* record was written at a later reading of the clock than the update
NextReviewWitness ==
    /\ Reviewed
    /\ Cardinality(HistoryOf(last.card_id)) = 1
    /\ last.card.interval = 1
    /\ last.card.next_review = 1 + DayTicks
    /\ LastReviewedAt(last.card_id) >= 1

\* C11 as claimed: every scheduling update moves next_review strictly
\* forward, beyond the next_review the card had before the update.
NextReviewStrictlyForward ==
    [][\A id \in CardIds, q \in Qualities :
          ReviewDone(id, q) => cards'[id].next_review > cards[id].next_review]_vars

\* C11: every scheduling update sets next_review strictly after the time of
\* the update, and so strictly after the card's previous next_review
\* whenever the card was due (next_review <= now) when it was reviewed.
NextReviewForwardWhenDue ==
    [][\A id \in CardIds, q \in Qualities :
          ReviewDone(id, q) =>
              /\ cards'[id].next_review > now
              /\ cards[id].next_review <= now =>
                     cards'[id].next_review > cards[id].next_review]_vars

\* a card reviewed a second time when it was due again, and a card reviewed
\* a second time before it was due
NextReviewForwardWitness ==
    /\ Reviewed
    /\ \E h1, h2 \in HistoryOf(last.card_id) :
           /\ h1.rank = 1 /\ h2.rank = 2
           /\ h2.reviewed_at >= h1.reviewed_at + DayTicks
    /\ \E h2, h3 \in HistoryOf(last.card_id) :
           /\ h2.rank = 2 /\ h3.rank = 3
           /\ h3.reviewed_at < h2.reviewed_at + DayTicks * 6

(***************************************************************************)
(* The review batch.  A batch response stays in last until the next        *)
(* request, so the store it is compared with is the store it was read      *)
(* from; only the clock may have advanced, and the properties that read    *)
(* the clock are stated on the step of the request.                        *)
(***************************************************************************)
Batched == last.op = "get_review_cards"
BatchStep == last' # last /\ last'.op = "get_review_cards"
InBatch(batch) == {batch[i] : i \in DOMAIN batch}
NoRepeat(batch) == \A i, j \in DOMAIN batch : i # j => batch[i] # batch[j]
DueSet == {id \in DOMAIN cards : cards[id].next_review <= now}
NewSet == {id \in DOMAIN cards : cards[id].repetitions = 0}

\* C12 as claimed: no card identifier occurs twice in a review batch.
BatchNoDuplicates == Batched => NoRepeat(last.batch)

\* C13 as claimed: the batch has min(limit, available) entries, available
\* being the number of cards that are due or new.
BatchLength ==
    [][BatchStep =>
          Len(last'.batch) = Min(last'.limit, Cardinality(DueSet \cup NewSet))]_vars

\* C14: a review batch has at most limit entries.
BatchWithinLimit == Batched => Len(last.batch) <= last.limit

\* a batch of limit entries from a store with more cards than that, and a
\* batch filled up to the limit by the new cards
BatchWithinLimitWitness ==
    /\ Batched
    /\ Len(last.batch) = last.limit
    /\ \/ Cardinality(DOMAIN cards) > last.limit
       \/ last.new_query /\ Cardinality(NewSet) > 1

\* C15: a review batch is a run of due cards (next_review <= now) in
\* ascending next_review order followed by a run of new cards
\* (repetitions = 0) in ascending created_at order, so that no card of the
\* new-card query precedes a card of the due-card query.
BatchOrdering ==
    [][BatchStep =>
          LET batch == last'.batch
          IN  \E k \in 0..Len(batch) :
                 /\ \A i \in 1..k : batch[i] \in DueSet
                 /\ \A i, j \in 1..k :
                        i < j => next_review_of(batch[i]) <= next_review_of(batch[j])
                 /\ \A i \in (k + 1)..Len(batch) : batch[i] \in NewSet
                 /\ \A i, j \in (k + 1)..Len(batch) :
                        i < j => created_at_of(batch[i]) <= created_at_of(batch[j])
                 /\ last'.new_query \/ k = Len(batch)]_vars

\* a batch in which a due card that is not new comes before a new card that
\* is not due
BatchOrderingWitness ==
    /\ Batched
    /\ \E i, j \in DOMAIN last.batch :
           /\ i < j
           /\ cards[last.batch[i]].repetitions > 0
           /\ cards[last.batch[i]].next_review <= now
           /\ cards[last.batch[j]].repetitions = 0
           /\ cards[last.batch[j]].next_review > now

\* C16: new cards never displace due cards.  When at least limit cards are
\* due, the batch is limit distinct due cards with the earliest next_review
\* and get_new_cards is not called; in every case a due card is missing from
\* the batch only if limit other due cards with a next_review no later than
\* its own are in it.
DueNotDisplaced ==
    [][BatchStep =>
          LET batch == last'.batch
              limit == last'.limit
          IN  /\ Cardinality(DueSet) >= limit =>
                     /\ Len(batch) = limit
                     /\ NoRepeat(batch)
                     /\ InBatch(batch) \subseteq DueSet
                     /\ \A d \in DueSet \ InBatch(batch), b \in InBatch(batch) :
                            next_review_of(b) <= next_review_of(d)
                     /\ ~last'.new_query
              /\ \A d \in DueSet \ InBatch(batch) :
                     Cardinality({b \in (InBatch(batch) \cap DueSet) \ {d} :
                                     next_review_of(b) <= next_review_of(d)}) >= limit]_vars

\* a batch of limit due cards that leaves out a due card with a later
\* next_review and a new card that is not due
DueNotDisplacedWitness ==
    /\ Batched
    /\ ~last.new_query
    /\ \E d \in DOMAIN cards \ InBatch(last.batch) :
           /\ cards[d].next_review <= now
           /\ \E b \in InBatch(last.batch) :
                  cards[b].next_review < cards[d].next_review

(***************************************************************************)
(* The review history.                                                     *)
(***************************************************************************)
\* the number of history records of a card after the step
HistoryCountAfter(card_id) == Cardinality({h \in history' : h.card_id = card_id})
HistoryCount(card_id) == Cardinality(HistoryOf(card_id))

\* C17: a completed review submission adds exactly one history record, of
\* the reviewed card and with the submitted quality, which is in 0..5; no
\* other step adds a record, and a card is created with none, so that the
\* records of a card are as many as its completed review submissions.
OneRecordPerReview ==
    [][/\ \A id \in CardIds, q \in Qualities :
             ReviewDone(id, q) =>
                 /\ q \in 0..5
                 /\ \E h \in history' \ history :
                        /\ history' = history \cup {h}
                        /\ h.card_id = id /\ h.quality = q
                 /\ \A other \in DOMAIN cards :
                        HistoryCountAfter(other) =
                            HistoryCount(other) + (IF other = id THEN 1 ELSE 0)
       /\ \/ \A id \in DOMAIN cards' :
                HistoryCountAfter(id) =
                    IF id \in DOMAIN cards THEN HistoryCount(id) ELSE 0
          \/ \E id \in CardIds, q \in Qualities : ReviewDone(id, q)]_vars

\* a card reviewed twice, the second time with a failing quality, with its
\* two records
OneRecordPerReviewWitness ==
    /\ Reviewed
    /\ ReviewsOf(last.card_id) \in {<<5, 2>>, <<2, 2>>}

\* C18: history is append-only.  A record, once in the table, stays in it
\* with the same card, quality and timestamp through every create, review
\* and batch request, and leaves it only when its card is deleted.
HistoryAppendOnly ==
    [][/\ \A h \in history :
             h \in history' \/ (h.card_id \in DOMAIN cards
                                  /\ h.card_id \notin DOMAIN cards')
       /\ \A h \in history, g \in history' :
             (h \in history' /\ g.card_id = h.card_id /\ g.rank = h.rank) => g = h]_vars

\* a record of a card that was kept through a later review of the card
HistoryAppendOnlyWitness ==
    /\ Reviewed
    /\ \E h, g \in HistoryOf(last.card_id) : h.rank = 1 /\ g.rank = 2

\* C19: every history record references a card of the store.
HistoryHasCard == \A h \in history : h.card_id \in DOMAIN cards

\* the first card deleted while the second, with its history, is kept
HistoryHasCardWitness ==
    /\ last = Failure("delete_card", 200)
    /\ DOMAIN cards = {2}
    /\ HistoryOf(2) # {}

\* C20: a batch request leaves every card and the whole history as they
\* were.
BatchIsPureRead ==
    [][BatchStep => cards' = cards /\ history' = history]_vars

\* a batch served from a store with a reviewed card
BatchIsPureReadWitness ==
    /\ Batched
    /\ Len(last.batch) > 0
    /\ history # {}

\* C21 as claimed: a card without a review has ease factor 2.5, interval 0,
\* repetitions 0 and next_review equal to its creation time, and is due.
NewCardDueAtCreationTime ==
    \A id \in DOMAIN cards :
        HistoryOf(id) = {} =>
            /\ cards[id].ease_factor = Lit(25, 10)
            /\ cards[id].interval = 0
            /\ cards[id].repetitions = 0
            /\ cards[id].next_review = cards[id].created_at
            /\ cards[id].next_review <= now

\* C21: a card is created with ease factor 2.5, interval 0, repetitions 0
\* and next_review at the reading of the clock taken when its row is
\* inserted, which is not later than its created_at, and keeps these
\* values, and so stays due (next_review <= now), until its first review.
NewCardDue ==
    /\ [](\A id \in DOMAIN cards :
             HistoryOf(id) = {} =>
                 /\ cards[id].ease_factor = Lit(25, 10)
                 /\ cards[id].interval = 0
                 /\ cards[id].repetitions = 0
                 /\ cards[id].next_review <= cards[id].created_at
                 /\ cards[id].next_review <= now)
    /\ [][\A id \in DOMAIN cards' \ DOMAIN cards :
             /\ cards'[id].next_review = now
             /\ cards'[id].created_at = now']_vars

\* a card whose created_at was read later than its next_review, not
\* reviewed since
NewCardDueWitness ==
    \E id \in DOMAIN cards :
        /\ HistoryOf(id) = {}
        /\ cards[id].next_review < cards[id].created_at
        /\ id \in DueSet

(***************************************************************************)
(* The handler step by step.                                               *)
(***************************************************************************)
\* the card after the reviews of the records H, oldest first, each update
\* made at the time of its record
RECURSIVE Replay(_, _)
Replay(card, H) ==
    IF H = {} THEN card
    ELSE LET h == CHOOSE h \in H : \A g \in H : h.rank <= g.rank
         IN  Replay(calculate_sm2(card, h.quality, h.reviewed_at), H \ {h})

\* C22: in every state of the tables, also after the process stopped inside
\* review_card, the ease factor, interval and repetitions of a card are
\* those of a new card updated once for each of its history records, in
\* their order, and next_review lies one interval after an instant that is
\* not later than its latest record: an update is in the card exactly when
\* its record is in the history.
CommittedTogether ==
    \A id \in DOMAIN cards :
        LET created  == cards[id].created_at
            replayed == Replay(NewCard(created, created), HistoryOf(id))
        IN  /\ cards[id].ease_factor = replayed.ease_factor
            /\ cards[id].interval = replayed.interval
            /\ cards[id].repetitions = replayed.repetitions
            /\ cards[id].next_review <= replayed.next_review
            /\ HistoryOf(id) # {} =>
                   cards[id].next_review >= cards[id].interval * DayTicks

\* the process stopped after calculate_sm2 had updated the card of the
\* session: the update is lost and no record was written
CommittedTogetherWitness ==
    /\ last.op = "crash"
    /\ \E r \in Requests :
           /\ inflight[r].pc = "crashed"
           /\ inflight[r].card_id \in DOMAIN cards
           /\ inflight[r].card # cards[inflight[r].card_id]

\* the requests for the card that were answered with the updated card
Completed(card_id) ==
    {r \in Requests : inflight[r].pc = "done" /\ inflight[r].card_id = card_id}

\* the requests for the card that reached the handler's first statement
\* with a valid body and an existing card
Submitted(card_id) ==
    {r \in Requests : /\ inflight[r].card_id = card_id
                      /\ inflight[r].pc \notin {"none", "rejected"}}

\* C23: a card has at least as many history records as review requests
\* completed for it, and when the two requests submitted for a card both
\* completed, the card has exactly two history records and is a new card
\* updated by calculate_sm2 with the two qualities one after the other, in
\* one of the two orders.
TwoSubmissionsSerial ==
    \A id \in DOMAIN cards :
        LET done == Completed(id)
        IN  /\ Cardinality(HistoryOf(id)) >= Cardinality(done)
            /\ (Cardinality(done) = 2 /\ Submitted(id) = done) =>
                  /\ Cardinality(HistoryOf(id)) = 2
                  /\ \E x \in done, t1, t2 \in 0..now :
                        LET y == CHOOSE y \in done : y # x
                            created == cards[id].created_at
                        IN  /\ t1 <= t2
                            /\ cards[id] =
                                  calculate_sm2(
                                      calculate_sm2(NewCard(created, created),
                                                    inflight[x].quality, t1),
                                      inflight[y].quality, t2)

\* two completed requests for one card with different qualities
TwoSubmissionsWitness ==
    \E a, b \in Requests :
        /\ inflight[a].pc = "done" /\ inflight[b].pc = "done"
        /\ inflight[a].card_id = inflight[b].card_id
        /\ inflight[a].quality # inflight[b].quality

(***************************************************************************)
(* The card from its creation through its reviews.                         *)
(***************************************************************************)
Mature(card) == card.interval >= MATURE_INTERVAL

\* C24: a mature card (interval >= 21) reviewed with quality >= 3 is mature
\* afterwards; a card stops being mature only in a review with quality < 3.
MatureStaysOnSuccess ==
    [][\A id \in DOMAIN cards :
          /\ \A q \in ValidQualities :
                (q >= 3 /\ Mature(cards[id]) /\ ReviewDone(id, q)) =>
                    Mature(cards'[id])
          /\ (Mature(cards[id]) /\ id \in DOMAIN cards' /\ ~Mature(cards'[id])) =>
                \E q \in ValidQualities : q < 3 /\ ReviewDone(id, q)]_vars

\* a card that became mature with its fourth review and was then reviewed
\* with quality 3
MatureStaysWitness ==
    \E id \in DOMAIN cards :
        ReviewsOf(id) = <<5, 5, 5, 5, 3>> /\ Mature(cards[id])

\* C25 as claimed: every card get_new_cards returns has no history record.
NewCardsNeverReviewed ==
    \A limit \in Limits : \A rows \in get_new_cards(limit) :
        \A i \in DOMAIN rows : HistoryOf(rows[i]) = {}

\* C26: repetitions 0 goes with interval 0 or 1, repetitions 1 with
\* interval 1, repetitions 2 with interval 6 and repetitions >= 3 with an
\* interval >= 8; the interval is 0 exactly for the cards without history.
RepetitionLadder ==
    \A id \in DOMAIN cards :
        LET c == cards[id]
        IN  /\ c.repetitions = 0 => c.interval \in {0, 1}
            /\ c.repetitions = 1 => c.interval = 1
            /\ c.repetitions = 2 => c.interval = 6
            /\ c.repetitions >= 3 => c.interval >= 8
            /\ c.repetitions >= 0
            /\ c.interval = 0 <=> HistoryOf(id) = {}

\* the smallest third step: the ease factor at its floor, interval 8
RepetitionLadderWitness ==
    \E id \in DOMAIN cards :
        /\ ReviewsOf(id) = <<0, 0, 3, 3, 3>>
        /\ cards[id].repetitions = 3 /\ cards[id].interval = 8

\* C27: every card is in exactly one of the classes NEW, LEARNING and
\* MATURE, and the new, learning and mature counts of get_stats add up to
\* total.
StatsPartition ==
    /\ get_stats.new + get_stats.learning + get_stats.mature = get_stats.total
    /\ \A id \in DOMAIN cards :
          LET c == cards[id]
              classes == <<c.repetitions = 0,
                           c.repetitions > 0 /\ c.interval < MATURE_INTERVAL,
                           c.interval >= MATURE_INTERVAL>>
          IN  Cardinality({k \in 1..3 : classes[k]}) = 1

\* a mature card counted as mature, and a card that failed a review when
\* it was mature, counted as new
StatsPartitionWitness ==
    \/ cards # <<>> /\ get_stats.mature = 1 /\ get_stats.total = 1
    \/ \E id \in DOMAIN cards :
          ReviewsOf(id) = <<5, 5, 5, 5, 2>> /\ get_stats.new = 1

\* C28: for a card with repetitions >= 2, a review with quality >= 3 gives
\* an interval greater than the interval before the review.
IntervalGrowsOnStreak ==
    [][\A id \in DOMAIN cards, q \in ValidQualities :
          (q >= 3 /\ cards[id].repetitions >= 2 /\ ReviewDone(id, q)) =>
              cards'[id].interval > cards[id].interval]_vars

\* the third success in a row at the floor of the ease factor, from
\* interval 6 to 8, and a later success
IntervalGrowsWitness ==
    \E id \in DOMAIN cards :
        /\ ReviewsOf(id) \in {<<0, 0, 3, 3, 3>>, <<5, 5, 5, 4>>}
        /\ cards[id].interval > 6

====
